---- MODULE Spec2Model ----
(***************************************************************************)
(* A model of widdler, a command-line client of the Cromwell workflow      *)
(* service: src/src/Cromwell.py (class Cromwell) and src/widdler.py (the   *)
(* run subcommand).  Python strings that the code builds or inspects       *)
(* character by character are sequences of one-character strings; Python   *)
(* dicts are functions over their keys; the file system, the OS user, the  *)
(* service's answers and the validator's answer are inputs of each         *)
(* invocation.                                                             *)
(***************************************************************************)
EXTENDS Integers, Sequences, FiniteSets, TLC

VARIABLES
    pc,        \* "idle" before the invocation, afterwards the operation that ran
    args,      \* the inputs of the invocation (arguments and environment)
    ret,       \* the value the operation returned (NoReturn when it raised or exited)
    raised,    \* NoException, or the exception that left the operation
    requests,  \* the HTTP requests issued, in order
    opened,    \* the paths handed to open(), in order
    printed    \* the lines written to standard output, in order

vars == <<pc, args, ret, raised, requests, opened, printed>>

(***************************************************************************)
(* Bounds of the model.                                                    *)
(***************************************************************************)
MaxParams == 3      \* entries of a query parameter mapping
MaxCalls == 4       \* calls of a metadata document
MaxLimit == 2       \* largest limit_n handed to getCalls directly

(***************************************************************************)
(* Python values.                                                          *)
(***************************************************************************)
None == [type |-> "NoneType"]
NoReturn == [type |-> "NoReturn"]
EmptyDict == <<>>

\* How an operation ended: normally, with an exception, or in sys.exit(code).
NoException == [exc |-> "none"]
Exception(name) == [exc |-> name]
SystemExit(code) == [exc |-> "SystemExit", code |-> code]

Min(a, b) == IF a < b THEN a ELSE b
Max(a, b) == IF a > b THEN a ELSE b

\* s[:stop] of Python, for a list s and any integer stop.
SliceTo(s, stop) ==
    LET n == Len(s)
        e == IF stop < 0 THEN Max(n + stop, 0) ELSE Min(stop, n)
    IN  SubSeq(s, 1, e)

RECURSIVE Concat(_)
Concat(ss) == IF ss = <<>> THEN <<>> ELSE Head(ss) \o Concat(Tail(ss))

(***************************************************************************)
(* Text: str(), str.format, str.rstrip, str.replace, urllib's quote.       *)
(***************************************************************************)
Digit == <<"0", "1", "2", "3", "4", "5", "6", "7", "8", "9">>

RECURSIVE Decimal(_)
Decimal(n) == IF n < 10 THEN <<Digit[n + 1]>>
              ELSE Decimal(n \div 10) \o <<Digit[(n % 10) + 1]>>

RECURSIVE ZeroPad(_, _)
ZeroPad(s, width) == IF Len(s) >= width THEN s ELSE ZeroPad(<<"0">> \o s, width)

\* datetime.__str__ is isoformat(sep=' '): the microseconds and the UTC offset
\* appear only when present.
datetime_str(d) ==
    LET off == IF d.tz = <<>> THEN 0 ELSE d.tz[1]
        mag == IF off < 0 THEN 0 - off ELSE off
    IN  Concat(<<
          ZeroPad(Decimal(d.year), 4), <<"-">>, ZeroPad(Decimal(d.month), 2), <<"-">>,
          ZeroPad(Decimal(d.day), 2), <<" ">>,
          ZeroPad(Decimal(d.hour), 2), <<":">>, ZeroPad(Decimal(d.minute), 2), <<":">>,
          ZeroPad(Decimal(d.second), 2),
          IF d.microsecond # 0 THEN <<".">> \o ZeroPad(Decimal(d.microsecond), 6) ELSE <<>>,
          IF d.tz = <<>> THEN <<>>
          ELSE Concat(<< <<IF off < 0 THEN "-" ELSE "+">>,
                         ZeroPad(Decimal(mag \div 60), 2), <<":">>,
                         ZeroPad(Decimal(mag % 60), 2) >>) >>)

\* str(value), which '{}'.format(value) yields for these types.
str(value) ==
    CASE value.type = "str" -> value.v
      [] value.type = "int" -> IF value.v < 0 THEN <<"-">> \o Decimal(0 - value.v)
                               ELSE Decimal(value.v)
      [] value.type = "NoneType" -> <<"N", "o", "n", "e">>
      [] value.type = "datetime" -> datetime_str(value)

Whitespace == {" ", "\t", "\n", "\r"}

RECURSIVE rstrip(_)
rstrip(s) == IF Len(s) > 0 /\ s[Len(s)] \in Whitespace
             THEN rstrip(SubSeq(s, 1, Len(s) - 1))
             ELSE s

\* A replace whose result is dropped: the caller keeps the text it had.
replace_dropped(s, old, new) == s

RECURSIVE replace(_, _, _)
replace(s, old, new) ==
    IF Len(s) < Len(old) THEN s
    ELSE IF SubSeq(s, 1, Len(old)) = old
         THEN new \o replace(SubSeq(s, Len(old) + 1, Len(s)), old, new)
         ELSE <<Head(s)>> \o replace(Tail(s), old, new)

\* The characters quote() leaves alone: letters, digits, '_.-' and the safe '/'.
Unreserved == {Digit[i] : i \in 1..10} \cup
              {"a", "b", "c", "k", "l", "u", "x", "y", "T", "Z", "N", "o", "n", "e",
               "_", ".", "-", "/"}

\* The two hexadecimal digits of the other characters that occur here.
PercentCode == [c \in {" ", ":", "+", "&", "=", "?", "%"} |->
                  CASE c = " " -> <<"2", "0">>
                    [] c = ":" -> <<"3", "A">>
                    [] c = "+" -> <<"2", "B">>
                    [] c = "&" -> <<"2", "6">>
                    [] c = "=" -> <<"3", "D">>
                    [] c = "?" -> <<"3", "F">>
                    [] c = "%" -> <<"2", "5">>]

RECURSIVE quote(_)
quote(s) == IF s = <<>> THEN <<>>
            ELSE (IF Head(s) \in Unreserved THEN <<Head(s)>>
                  ELSE <<"%">> \o PercentCode[Head(s)]) \o quote(Tail(s))

(***************************************************************************)
(* Cromwell.build_query_url                                                *)
(***************************************************************************)
\* '{}{}{}'.format(key, sep, value)
format3(key, sep, value) == key \o sep \o str(value)

\* for item in value: url_string += '{}{}{}'.format(key, sep, item)
RECURSIVE list_items(_, _, _, _)
list_items(url_string, key, sep, value) ==
    IF value = <<>> THEN url_string
    ELSE list_items(url_string \o format3(key, sep, Head(value)), key, sep, Tail(value))

\* The body of the loop over url_dict.items(), with the state it carries.
RECURSIVE url_loop(_, _, _, _)
url_loop(items, sep, first, url_string) ==
    IF items = <<>> THEN url_string
    ELSE LET key == items[1][1]
             s1 == IF ~first THEN url_string \o <<"&">> ELSE url_string
             value == IF items[1][2].type = "datetime"
                      THEN [type |-> "str",
                            v |-> replace(quote(str(items[1][2])) \o <<"Z">>,
                                          <<"%", "2", "0">>, <<"T">>)]
                      ELSE items[1][2]
             s2 == IF value.type = "list"
                   THEN list_items(s1, key, sep, value.v)
                   ELSE s1 \o format3(key, sep, value)
         IN  url_loop(Tail(items), sep, FALSE, s2)

\* A build_query_url that has lost the "first" flag: every pair gets its '&'.
build_query_url_no_first(base_url, url_dict, sep) ==
    rstrip(base_url) \o url_loop(url_dict, sep, FALSE, <<>>)

build_query_url(base_url, url_dict, sep) ==
    rstrip(base_url) \o url_loop(url_dict, sep, TRUE, <<>>)

(***************************************************************************)
(* Cromwell.getCalls and its inner parse_logs.  A call is the list of its  *)
(* attempt records; a log path names the call, the attempt and the stream  *)
(* it belongs to; fs is the set of paths whose open() or read() fails.     *)
(***************************************************************************)
LogPath(c, a, stream) == [call |-> c, attempt |-> a, stream |-> stream]

\* with open(path, 'r') as f: f.read(), or the IOError it raises.
read_file(path, fs) ==
    IF path \in fs THEN [failed |-> TRUE, value |-> [kind |-> "IOError", of |-> path]]
    ELSE [failed |-> FALSE, value |-> [kind |-> "text", of |-> path]]

\* A parse_logs with one try block around both reads: a failed stdout read
\* skips the stderr read.
parse_logs_one_try(call, full_logs, fs) ==
    LET names == [stdout |-> [name |-> call.stdout], stderr |-> [name |-> call.stderr]]
        out == read_file(call.stdout, fs)
        err == read_file(call.stderr, fs)
    IN  IF ~full_logs THEN [log |-> names, opened |-> <<>>]
        ELSE IF out.failed
        THEN [log |-> [names EXCEPT !.stdout = [name |-> call.stdout, log |-> out.value]],
              opened |-> <<call.stdout>>]
        ELSE [log |-> [stdout |-> [name |-> call.stdout, log |-> out.value],
                       stderr |-> [name |-> call.stderr, log |-> err.value]],
              opened |-> <<call.stdout, call.stderr>>]

\* The except clauses store the error where the text would go, so both
\* streams are always opened in full-log mode.
parse_logs(call, full_logs, fs) ==
    LET names == [stdout |-> [name |-> call.stdout], stderr |-> [name |-> call.stderr]]
        out == read_file(call.stdout, fs)
        err == read_file(call.stderr, fs)
    IN  IF ~full_logs THEN [log |-> names, opened |-> <<>>]
        ELSE [log |-> [stdout |-> [name |-> call.stdout, log |-> out.value],
                       stderr |-> [name |-> call.stderr, log |-> err.value]],
              opened |-> <<call.stdout, call.stderr>>]

\* map(parse_logs, calls) of Python 2: the list of summaries, and the paths
\* opened while building it.
map_parse_logs(calls, full_logs, fs) ==
    LET r == [i \in 1..Len(calls) |-> parse_logs(calls[i], full_logs, fs)]
    IN  [ret |-> [i \in 1..Len(calls) |-> r[i].log],
         opened |-> Concat([i \in 1..Len(calls) |-> r[i].opened])]

\* A getCalls that summarizes every matching call and truncates afterwards.
getCalls_slice_last(status, call_arr, full_logs, limit_n, fs) ==
    LET filteredCalls == SelectSeq(call_arr, LAMBDA c : c[1].executionStatus = status)
        firsts == [i \in 1..Len(filteredCalls) |-> filteredCalls[i][1]]
        all == map_parse_logs(firsts, full_logs, fs)
    IN  [ret |-> SliceTo(all.ret, limit_n), opened |-> all.opened]

\* A getCalls that matches the last attempt of a call instead of the first.
getCalls_last_attempt(status, call_arr, full_logs, limit_n, fs) ==
    LET filteredCalls == SelectSeq(call_arr, LAMBDA c : c[Len(c)].executionStatus = status)
        firsts == [i \in 1..Len(filteredCalls) |-> filteredCalls[i][1]]
    IN  map_parse_logs(SliceTo(firsts, limit_n), full_logs, fs)

\* filter on c[0]['executionStatus'], map to c[0], slice to limit_n, then
\* parse_logs over the slice (every step a list, as in Python 2).
getCalls(status, call_arr, full_logs, limit_n, fs) ==
    LET filteredCalls == SelectSeq(call_arr, LAMBDA c : c[1].executionStatus = status)
        firsts == [i \in 1..Len(filteredCalls) |-> filteredCalls[i][1]]
    IN  map_parse_logs(SliceTo(firsts, limit_n), full_logs, fs)

\* The default of getCalls' limit_n, which explain_workflow relies on.
DefaultLimit == 3

(***************************************************************************)
(* HTTP: Cromwell.get and Cromwell.query_metadata.  The body the service   *)
(* answers with is an input; json.loads of it is what the caller sees.     *)
(***************************************************************************)
GetRequest(rtype, workflow_id) ==
    [method |-> "GET", rtype |-> rtype, workflow_id |-> workflow_id]

query_metadata(workflow_id, response) ==
    [ret |-> response, requests |-> <<GetRequest("metadata", workflow_id)>>]

(***************************************************************************)
(* Cromwell.explain_workflow                                               *)
(***************************************************************************)
NotFound(q) ==
    [ret |-> <<EmptyDict, EmptyDict, EmptyDict>>, raised |-> NoException,
     requests |-> q.requests, opened |-> <<>>, printed |-> <<"Workflow not found.">>]

\* The branch for a document: one that loads the log text of running jobs too.
explain_present_full_running(q, include_inputs, fs) ==
    LET result == q.ret
        head == [status |-> result.status, id |-> result.id,
                 workflowRoot |-> result.workflowRoot]
        jobs == getCalls(IF result.status = "Failed" THEN "RetryableFailure" ELSE "Running",
                         result.calls, TRUE, DefaultLimit, fs)
        additional_res == IF include_inputs THEN [inputs |-> result.inputs] ELSE EmptyDict
    IN  IF result.status = "Failed"
        THEN [ret |-> <<head, additional_res, [failed_jobs |-> jobs.ret]>>,
              raised |-> NoException, requests |-> q.requests, opened |-> jobs.opened,
              printed |-> <<>>]
        ELSE IF result.status = "Running"
        THEN [ret |-> <<head @@ [running_jobs |-> jobs.ret], additional_res, EmptyDict>>,
              raised |-> NoException, requests |-> q.requests, opened |-> jobs.opened,
              printed |-> <<>>]
        ELSE [ret |-> <<head, additional_res, EmptyDict>>, raised |-> NoException,
              requests |-> q.requests, opened |-> <<>>, printed |-> <<>>]

\* The branch for a document (result != None).  result['calls'].values() is
\* the document's calls field here: the attempt lists in the order the dict
\* yields them.  failed_jobs goes to the third mapping, running_jobs to the
\* first.
explain_present(q, include_inputs, fs) ==
    LET result == q.ret
        head == [status |-> result.status, id |-> result.id,
                 workflowRoot |-> result.workflowRoot]
        failed == getCalls("RetryableFailure", result.calls, TRUE, DefaultLimit, fs)
        running == getCalls("Running", result.calls, FALSE, DefaultLimit, fs)
        additional_res == IF include_inputs THEN [inputs |-> result.inputs] ELSE EmptyDict
    IN  IF result.status = "Failed"
        THEN [ret |-> <<head, additional_res, [failed_jobs |-> failed.ret]>>,
              raised |-> NoException, requests |-> q.requests, opened |-> failed.opened,
              printed |-> <<>>]
        ELSE IF result.status = "Running"
        THEN [ret |-> <<head @@ [running_jobs |-> running.ret], additional_res, EmptyDict>>,
              raised |-> NoException, requests |-> q.requests, opened |-> running.opened,
              printed |-> <<>>]
        ELSE [ret |-> <<head, additional_res, EmptyDict>>, raised |-> NoException,
              requests |-> q.requests, opened |-> <<>>, printed |-> <<>>]

\* An explain_workflow that reads the document before testing it for None.
explain_workflow_unguarded(workflow_id, include_inputs, response, fs) ==
    LET q == query_metadata(workflow_id, response)
    IN  IF q.ret = None
        THEN [ret |-> NoReturn, raised |-> Exception("TypeError"), requests |-> q.requests,
              opened |-> <<>>, printed |-> <<>>]
        ELSE explain_present(q, include_inputs, fs)

explain_workflow(workflow_id, include_inputs, response, fs) ==
    LET q == query_metadata(workflow_id, response)
    IN  IF q.ret # None THEN explain_present(q, include_inputs, fs) ELSE NotFound(q)

(***************************************************************************)
(* JSON texts.  A text is its sequence of tokens: an object is "{", then   *)
(* key, ":", value for each member with "," between members, then "}".     *)
(* Member values are strings.                                              *)
(***************************************************************************)
\* The order in which a dict yields its keys.
KeyOrder == <<"wf.sample", "wf.threads", "user">>

RECURSIVE dumps_members(_, _, _)
dumps_members(d, keys, first) ==
    IF keys = <<>> THEN <<>>
    ELSE IF Head(keys) \in DOMAIN d
         THEN (IF first THEN <<>> ELSE <<",">>) \o <<Head(keys), ":", d[Head(keys)]>>
              \o dumps_members(d, Tail(keys), FALSE)
         ELSE dumps_members(d, Tail(keys), first)

json_dumps(d) == <<"{">> \o dumps_members(d, KeyOrder, TRUE) \o <<"}">>

\* json.load / json.loads of an object text; a repeated key keeps its last value.
json_loads(text) ==
    LET n == (Len(text) - 1) \div 4
        keyAt(i) == text[4 * i - 2]
        last(k) == CHOOSE i \in 1..n : keyAt(i) = k /\ \A j \in (i + 1)..n : keyAt(j) # k
    IN  [k \in {keyAt(i) : i \in 1..n} |-> text[4 * last(k)]]

startswith(s, prefix) ==
    Len(s) >= Len(prefix) /\ SubSeq(s, 1, Len(prefix)) = prefix

(***************************************************************************)
(* Cromwell.jstart_workflow.  env.user is getpass.getuser(), env.files the *)
(* content of the files by path, env.response the body of the service's    *)
(* answer to the POST.  dependencies is None or a str value; the other     *)
(* strings are bare token sequences.                                       *)
(***************************************************************************)
PostRequest(files) == [method |-> "POST", rtype |-> "submit", files |-> files]

jstart_workflow(wdl_file, json_file, dependencies, wdl_string, disable_caching, env) ==
    LET from_file == ~startswith(json_file, <<"{">>)
        loaded == json_loads(env.files[json_file])
        \* args['user'] = getpass.getuser()
        with_user == [k \in DOMAIN loaded \cup {"user"} |->
                        IF k = "user" THEN env.user ELSE loaded[k]]
        j_args == IF from_file THEN json_dumps(with_user) ELSE json_file
        source == IF ~wdl_string
                  THEN [name |-> wdl_file, content |-> env.files[wdl_file],
                        mime |-> "application/octet-stream"]
                  ELSE [name |-> <<"workflow.wdl">>, content |-> wdl_file,
                        mime |-> "application/text-plain"]
        files0 == [wdlSource |-> source,
                   workflowInputs |-> [name |-> <<"report.csv">>, content |-> j_args,
                                       mime |-> "application/json"]]
        files1 == IF dependencies # None
                  THEN files0 @@ [wdlDependencies |->
                                    [name |-> dependencies.v,
                                     content |-> env.files[dependencies.v],
                                     mime |-> "application/zip"]]
                  ELSE files0
        files2 == IF disable_caching
                  THEN files1 @@ [workflowOptions |->
                                    [name |-> <<"options.json">>,
                                     content |-> <<"{", "read_from_cache", ":", "false", "}">>,
                                     mime |-> "application/json"]]
                  ELSE files1
    IN  [ret |-> env.response, raised |-> NoException,
         requests |-> <<PostRequest(files2)>>,
         opened |-> (IF from_file THEN <<json_file>> ELSE <<>>)
                    \o (IF ~wdl_string THEN <<wdl_file>> ELSE <<>>)
                    \o (IF dependencies # None THEN <<dependencies.v>> ELSE <<>>),
         printed |-> IF disable_caching THEN <<"disable_caching enabled">> ELSE <<>>]

(***************************************************************************)
(* Cromwell.restart_workflow.  env.metadata is the body of the service's   *)
(* answer to the metadata GET.                                             *)
(***************************************************************************)
\* A restart_workflow that reads the document with defaults instead of
\* catching KeyError, and submits whatever it found.
restart_workflow_defaults(workflow_id, disable_caching, env) ==
    LET q == query_metadata(workflow_id, env.metadata)
        metadata == q.ret
        submitted == IF "submittedFiles" \in DOMAIN metadata THEN metadata.submittedFiles
                     ELSE EmptyDict
        workflow_input == IF "inputs" \in DOMAIN submitted THEN submitted.inputs
                          ELSE <<"{", "}">>
        wdl == IF "workflow" \in DOMAIN submitted THEN submitted.workflow ELSE <<>>
        j == jstart_workflow(wdl, workflow_input, None, TRUE, disable_caching, env)
    IN  IF metadata = None
        THEN [ret |-> NoReturn, raised |-> Exception("TypeError"), requests |-> q.requests,
              opened |-> <<>>, printed |-> <<>>]
        ELSE [j EXCEPT !.requests = q.requests \o j.requests]

\* metadata['submittedFiles']['inputs'], then ['workflow']: subscripting None
\* is a TypeError, which the except clause does not catch; a missing key is
\* the KeyError it turns into None.
restart_workflow(workflow_id, disable_caching, env) ==
    LET q == query_metadata(workflow_id, env.metadata)
        metadata == q.ret
        j == jstart_workflow(metadata.submittedFiles.workflow, metadata.submittedFiles.inputs,
                             None, TRUE, disable_caching, env)
    IN  IF metadata = None
        THEN [ret |-> NoReturn, raised |-> Exception("TypeError"), requests |-> q.requests,
              opened |-> <<>>, printed |-> <<>>]
        ELSE IF \/ "submittedFiles" \notin DOMAIN metadata
                \/ "inputs" \notin DOMAIN metadata.submittedFiles
                \/ "workflow" \notin DOMAIN metadata.submittedFiles
        THEN [ret |-> None, raised |-> NoException, requests |-> q.requests,
              opened |-> <<>>, printed |-> <<>>]
        ELSE [j EXCEPT !.requests = q.requests \o j.requests]

(***************************************************************************)
(* widdler.call_run.  a is the argparse namespace of the run subcommand;   *)
(* env.validation is what validator.validate_json() returns.               *)
(***************************************************************************)
ErrorReport(json, result) == [file |-> json, errors |-> result]

\* A call_run that reports the errors and submits anyway.
call_run_no_exit(a, env) ==
    LET j == jstart_workflow(a.wdl, a.json, a.dependencies, FALSE, FALSE, env)
    IN  IF a.validate /\ Len(env.validation) # 0
        THEN [j EXCEPT !.printed = <<ErrorReport(a.json, env.validation)>> \o j.printed]
        ELSE j

call_run(a, env) ==
    IF a.validate /\ Len(env.validation) # 0
    THEN [ret |-> NoReturn, raised |-> SystemExit(-1), requests |-> <<>>,
          opened |-> <<>>, printed |-> <<ErrorReport(a.json, env.validation)>>]
    ELSE jstart_workflow(a.wdl, a.json, a.dependencies, FALSE, FALSE, env)

(***************************************************************************)
(* The inputs of an invocation.                                            *)
(***************************************************************************)
PyStr(v) == [type |-> "str", v |-> v]
PyInt(v) == [type |-> "int", v |-> v]
PyList(v) == [type |-> "list", v |-> v]
DateTime(y, mo, d, h, mi, sec, us, tz) ==
    [type |-> "datetime", year |-> y, month |-> mo, day |-> d, hour |-> h,
     minute |-> mi, second |-> sec, microsecond |-> us, tz |-> tz]

Keys == {<<"a">>, <<"b">>, <<"l", "a", "b", "e", "l">>}
Scalars == {PyStr(<<"x">>), PyInt(12), None}
Lists == {PyList(<<PyStr(<<"a">>), PyStr(<<"b">>)>>),
          PyList(<<PyStr(<<"a">>), PyInt(3), None>>)}
DateTimes == {DateTime(2017, 3, 9, 8, 5, 0, 0, <<>>),
              DateTime(2017, 12, 31, 23, 59, 58, 1200, <<>>),
              DateTime(2018, 1, 2, 3, 4, 5, 0, <<330>>)}
Values == Scalars \cup Lists \cup DateTimes

\* An ordered mapping: its items in order, no key twice.
ParamMaps ==
    UNION {{m \in [1..n -> Keys \X Values] :
              \A i, j \in 1..n : i # j => m[i][1] # m[j][1]} : n \in 0..MaxParams}

BaseUrls == {<<"u", "?">>, <<"u", "?", " ">>, <<"u", "?", "\n", " ">>}
Seps == {<<"=">>, <<":">>}

\* The statuses of a call's attempts, first attempt first.
AttemptStatuses == {<<"RetryableFailure">>, <<"Running">>,
                    <<"Done", "RetryableFailure">>, <<"RetryableFailure", "Running">>,
                    <<"Running", "Done">>}

CallsOf(st) ==
    [i \in 1..Len(st) |->
        [a \in 1..Len(st[i]) |->
            [executionStatus |-> st[i][a],
             stdout |-> LogPath(i, a, "stdout"),
             stderr |-> LogPath(i, a, "stderr")]]]

CallArrs == {CallsOf(st) : st \in UNION {[1..n -> AttemptStatuses] : n \in 0..MaxCalls}}

StatusFilters == {"RetryableFailure", "Running"}

\* The file systems: the log paths that cannot be read.
FileSystems == SUBSET {LogPath(1, 1, "stdout"), LogPath(1, 1, "stderr"),
                       LogPath(2, 1, "stdout")}

WorkflowId == "wf-1"

MetadataDoc(status, calls) ==
    [status |-> status, id |-> WorkflowId, workflowRoot |-> "/cromwell/wf-1",
     calls |-> calls, inputs |-> [sample |-> "s1"]]

WorkflowStatuses == {"Failed", "Running", "Succeeded"}

Users == {"alice", "bob"}

\* The JSON inputs of a workflow, as texts.
InputTexts == {json_dumps(d) : d \in {EmptyDict,
                                       "wf.sample" :> "s1",
                                       ("wf.sample" :> "s1") @@ ("user" :> "alice"),
                                       ("wf.sample" :> "s1") @@ ("wf.threads" :> "4")
                                           @@ ("user" :> "bob")}}

WdlText == <<"workflow", "wf", "{", "}">>
WdlPath == <<"wf.wdl">>
JsonPath == <<"inputs.json">>
ZipPath == <<"deps.zip">>

RestartDoc(submitted) ==
    [status |-> "Failed", id |-> WorkflowId, submittedFiles |-> submitted]

\* What the metadata GET of a restart can answer.
RestartMetadata ==
    {None, [status |-> "fail", message |-> "Unrecognized workflow ID"],
     RestartDoc(EmptyDict), RestartDoc([workflow |-> WdlText])}
    \cup {RestartDoc([inputs |-> t]) : t \in InputTexts}
    \cup {RestartDoc([inputs |-> t, workflow |-> WdlText]) : t \in InputTexts}

\* What validate_json() can return: the error descriptions, none when valid.
Validations == {<<>>, <<"missing input">>, <<"missing input", "wrong type">>}

SubmitResponse == [id |-> "wf-2", status |-> "Submitted"]

Files(json_text) ==
    (WdlPath :> WdlText) @@ (JsonPath :> json_text) @@ (ZipPath :> <<"PK">>)

(***************************************************************************)
(* The state machine: one invocation per behaviour.                        *)
(***************************************************************************)
Init ==
    /\ pc = "idle"
    /\ args = EmptyDict
    /\ ret = NoReturn
    /\ raised = NoException
    /\ requests = <<>>
    /\ opened = <<>>
    /\ printed = <<>>

Finish(op, a, r) ==
    /\ pc' = op
    /\ args' = a
    /\ ret' = r.ret
    /\ raised' = r.raised
    /\ requests' = r.requests
    /\ opened' = r.opened
    /\ printed' = r.printed

Pure(value) ==
    [ret |-> value, raised |-> NoException, requests |-> <<>>, opened |-> <<>>,
     printed |-> <<>>]

BuildQueryUrl ==
    /\ pc = "idle"
    /\ \E base_url \in BaseUrls, url_dict \in ParamMaps, sep \in Seps :
           Finish("build_query_url",
                  [base_url |-> base_url, url_dict |-> url_dict, sep |-> sep],
                  Pure(build_query_url(base_url, url_dict, sep)))

GetCalls ==
    /\ pc = "idle"
    /\ \E status \in StatusFilters, call_arr \in CallArrs, full_logs \in BOOLEAN,
          limit_n \in 0..MaxLimit :
           \E fs \in IF full_logs THEN FileSystems ELSE {{}} :
               LET r == getCalls(status, call_arr, full_logs, limit_n, fs)
               IN  Finish("getCalls",
                          [status |-> status, call_arr |-> call_arr, full_logs |-> full_logs,
                           limit_n |-> limit_n, fs |-> fs],
                          [Pure(r.ret) EXCEPT !.opened = r.opened])

ExplainWorkflow ==
    /\ pc = "idle"
    /\ \E response \in {None} \cup {MetadataDoc(st, c) : st \in WorkflowStatuses, c \in CallArrs},
          include_inputs \in BOOLEAN :
           \E fs \in IF response # None /\ response.status = "Failed"
                     THEN FileSystems ELSE {{}, {LogPath(1, 1, "stdout")}} :
               Finish("explain_workflow",
                      [workflow_id |-> WorkflowId, include_inputs |-> include_inputs,
                       metadata |-> response, fs |-> fs],
                      explain_workflow(WorkflowId, include_inputs, response, fs))

RestartWorkflow ==
    /\ pc = "idle"
    /\ \E metadata \in RestartMetadata, disable_caching \in BOOLEAN, user \in Users :
           LET env == [user |-> user, metadata |-> metadata, response |-> SubmitResponse,
                       files |-> Files(<<"{", "}">>)]
           IN  Finish("restart_workflow",
                      [workflow_id |-> WorkflowId, disable_caching |-> disable_caching,
                       env |-> env],
                      restart_workflow(WorkflowId, disable_caching, env))

CallRun ==
    /\ pc = "idle"
    /\ \E validate \in BOOLEAN, validation \in Validations, json_text \in InputTexts,
          dependencies \in {None, PyStr(ZipPath)}, user \in Users :
           LET a == [wdl |-> WdlPath, json |-> JsonPath, validate |-> validate,
                     dependencies |-> dependencies]
               env == [user |-> user, validation |-> validation,
                       response |-> SubmitResponse, files |-> Files(json_text)]
           IN  Finish("call_run", [args |-> a, env |-> env], call_run(a, env))

Next ==
    \/ BuildQueryUrl
    \/ GetCalls
    \/ ExplainWorkflow
    \/ RestartWorkflow
    \/ CallRun

Spec == Init /\ [][Next]_vars

(***************************************************************************)
(* What the properties below are stated with: the query string a mapping   *)
(* denotes, the calls a filter matches.                                    *)
(***************************************************************************)
RECURSIVE JoinAmp(_)
JoinAmp(segments) ==
    IF segments = <<>> THEN <<>>
    ELSE IF Len(segments) = 1 THEN segments[1]
    ELSE segments[1] \o <<"&">> \o JoinAmp(Tail(segments))

\* One 'key<sep>text' occurrence per scalar, one per element of a list.
Occurrences(item, sep) ==
    IF item[2].type = "list"
    THEN [i \in 1..Len(item[2].v) |-> item[1] \o sep \o str(item[2].v[i])]
    ELSE <<item[1] \o sep \o str(item[2])>>

AllOccurrences(url_dict, sep) ==
    Concat([i \in 1..Len(url_dict) |-> Occurrences(url_dict[i], sep)])

\* base_url without its trailing whitespace: the prefix that ends in none
\* and is followed by nothing else.
Trimmed(base_url) ==
    LET n == CHOOSE n \in 0..Len(base_url) :
                 /\ n > 0 => base_url[n] \notin Whitespace
                 /\ \A i \in (n + 1)..Len(base_url) : base_url[i] \in Whitespace
    IN  SubSeq(base_url, 1, n)

OnlyScalars(url_dict) ==
    \A i \in 1..Len(url_dict) : url_dict[i][2].type \in {"str", "int", "NoneType"}

NoTimestamp(url_dict) ==
    \A i \in 1..Len(url_dict) : url_dict[i][2].type # "datetime"

HasLongList(url_dict) ==
    \E i \in 1..Len(url_dict) :
        url_dict[i][2].type = "list" /\ Len(url_dict[i][2].v) >= 2

\* The indices of the calls whose attempt at index 0 has the status.
Matching(status, call_arr) ==
    {i \in 1..Len(call_arr) : call_arr[i][1].executionStatus = status}

\* The k-th smallest index of a set of indices.
Nth(M, k) == CHOOSE i \in M : Cardinality({j \in M : j <= i}) = k

\* jobs summarizes, in order, the first `limit` calls matching the status, each
\* from its attempt at index 0.
Summarizes(jobs, status, call_arr, limit) ==
    LET M == Matching(status, call_arr)
    IN  /\ Len(jobs) = Min(limit, Cardinality(M))
        /\ \A k \in 1..Len(jobs) :
              /\ jobs[k].stdout.name = call_arr[Nth(M, k)][1].stdout
              /\ jobs[k].stderr.name = call_arr[Nth(M, k)][1].stderr

Streams == {"stdout", "stderr"}

\* The paths named by a list of summaries.
NamedPaths(jobs) == {jobs[k][s].name : k \in 1..Len(jobs), s \in Streams}

SeqRange(q) == {q[i] : i \in 1..Len(q)}

(***************************************************************************)
(* build_query_url                                                         *)
(***************************************************************************)
\* C1: a mapping with a list of n >= 2 elements (and no timestamp) yields one
\* 'key<sep>element' occurrence per element, in order, every two consecutive
\* occurrences of the whole query separated by '&'.
C1_ListOccurrencesSeparated ==
    (pc = "build_query_url" /\ NoTimestamp(args.url_dict) /\ HasLongList(args.url_dict))
        => ret = Trimmed(args.base_url) \o JoinAmp(AllOccurrences(args.url_dict, args.sep))

\* C2 as stated: for a mapping of scalars only the result is base_url itself
\* followed by the pairs in insertion order, joined by single '&'.
C2_BaseUrlThenPairs ==
    (pc = "build_query_url" /\ OnlyScalars(args.url_dict))
        => ret = args.base_url \o JoinAmp(AllOccurrences(args.url_dict, args.sep))

\* C2, amended: for a mapping of scalars only the result is base_url without
\* its trailing whitespace, followed by the pairs in insertion order, joined
\* by single '&', with no leading or trailing '&'.
C2_TrimmedBaseUrlThenPairs ==
    (pc = "build_query_url" /\ OnlyScalars(args.url_dict))
        => ret = Trimmed(args.base_url) \o JoinAmp(AllOccurrences(args.url_dict, args.sep))

C2_Witness ==
    /\ pc = "build_query_url"
    /\ OnlyScalars(args.url_dict)
    /\ Len(args.url_dict) = 3
    /\ args.base_url = <<"u", "?", "\n", " ">>
    /\ ret[Len(ret)] # "&"

(***************************************************************************)
(* getCalls                                                                *)
(***************************************************************************)
\* C3: getCalls returns at most limit_n summaries, and every path it opens is
\* the stdout or stderr path of a summary it returns.
C3_LimitBoundsSummariesAndReads ==
    pc = "getCalls"
        => /\ Len(ret) <= args.limit_n
           /\ SeqRange(opened) \subseteq NamedPaths(ret)
           /\ Len(opened) <= 2 * args.limit_n

C3_Witness ==
    /\ pc = "getCalls"
    /\ args.full_logs
    /\ args.limit_n >= 1
    /\ Cardinality(Matching(args.status, args.call_arr)) > args.limit_n
    /\ Len(ret) = args.limit_n
    /\ opened # <<>>

\* C4: the summaries are those of the calls whose attempt at index 0 has the
\* status, built from that attempt; no summary comes from a call whose first
\* attempt has another status, whatever its later attempts.
C4_FirstAttemptDecides ==
    pc = "getCalls"
        => /\ Summarizes(ret, args.status, args.call_arr, args.limit_n)
           /\ \A i \in 1..Len(args.call_arr) :
                 args.call_arr[i][1].executionStatus # args.status
                     => \A a \in 1..Len(args.call_arr[i]) :
                            /\ args.call_arr[i][a].stdout \notin NamedPaths(ret)
                            /\ args.call_arr[i][a].stderr \notin NamedPaths(ret)

C4_Witness ==
    /\ pc = "getCalls"
    /\ \E i \in 1..Len(args.call_arr) :
          /\ args.call_arr[i][1].executionStatus # args.status
          /\ Len(args.call_arr[i]) = 2
          /\ args.call_arr[i][2].executionStatus = args.status
          /\ \E j \in (i + 1)..Len(args.call_arr) :
                args.call_arr[j][1].stdout \in NamedPaths(ret)

\* C7: in full-log mode every returned summary has both streams read: the log
\* field of a stream holds the IOError when its path cannot be read and the
\* text otherwise, the name field holds the path, and every selected call is
\* summarized, whichever reads failed.
C7_FailedReadIsRecordedPerField ==
    (pc = "getCalls" /\ args.full_logs)
        => /\ raised = NoException
           /\ Summarizes(ret, args.status, args.call_arr, args.limit_n)
           /\ \A k \in 1..Len(ret) : \A s \in Streams :
                 /\ DOMAIN ret[k][s] = {"name", "log"}
                 /\ ret[k][s].log.of = ret[k][s].name
                 /\ ret[k][s].log.kind =
                        (IF ret[k][s].name \in args.fs THEN "IOError" ELSE "text")
                 /\ ret[k][s].name \in SeqRange(opened)

C7_Witness ==
    /\ pc = "getCalls"
    /\ args.full_logs
    /\ Len(ret) = 2
    /\ ret[1].stdout.log.kind = "IOError"
    /\ ret[1].stdout.name = LogPath(1, 1, "stdout")
    /\ ret[1].stderr.log.kind = "text"
    /\ ret[2].stdout.log.kind = "text"

(***************************************************************************)
(* explain_workflow                                                        *)
(***************************************************************************)
HeadlineKeys == {"status", "id", "workflowRoot"}

\* C5: for a document, the headline carries its status, id and workflowRoot,
\* and the status alone decides the job list: "Failed" gives failed_jobs, the
\* first three calls whose first attempt is RetryableFailure, with the log of
\* both streams loaded; "Running" gives running_jobs, the first three calls
\* whose first attempt is Running, with no log loaded and no file opened; any
\* other status gives no job list and opens no file.
C5_StatusDecidesJobList ==
    (pc = "explain_workflow" /\ args.metadata # None)
        => /\ raised = NoException
           /\ HeadlineKeys \subseteq DOMAIN ret[1]
           /\ ret[1].status = args.metadata.status
           /\ ret[1].id = args.metadata.id
           /\ ret[1].workflowRoot = args.metadata.workflowRoot
           /\ args.metadata.status = "Failed"
                 => /\ DOMAIN ret[1] = HeadlineKeys
                    /\ DOMAIN ret[3] = {"failed_jobs"}
                    /\ Summarizes(ret[3].failed_jobs, "RetryableFailure",
                                  args.metadata.calls, 3)
                    /\ \A k \in 1..Len(ret[3].failed_jobs) : \A s \in Streams :
                          "log" \in DOMAIN ret[3].failed_jobs[k][s]
                    /\ SeqRange(opened) = NamedPaths(ret[3].failed_jobs)
           /\ args.metadata.status = "Running"
                 => /\ DOMAIN ret[1] = HeadlineKeys \cup {"running_jobs"}
                    /\ DOMAIN ret[3] = {}
                    /\ Summarizes(ret[1].running_jobs, "Running", args.metadata.calls, 3)
                    /\ \A k \in 1..Len(ret[1].running_jobs) : \A s \in Streams :
                          DOMAIN ret[1].running_jobs[k][s] = {"name"}
                    /\ opened = <<>>
           /\ args.metadata.status \notin {"Failed", "Running"}
                 => /\ DOMAIN ret[1] = HeadlineKeys
                    /\ DOMAIN ret[3] = {}
                    /\ opened = <<>>

C5_Witness ==
    /\ pc = "explain_workflow"
    /\ args.metadata # None
    /\ args.metadata.status = "Running"
    /\ Cardinality(Matching("Running", args.metadata.calls)) = 4
    /\ Len(ret[1].running_jobs) = 3
    /\ args.fs # {}

\* C6: with no document, explain_workflow returns three empty mappings, says
\* "Workflow not found.", opens no file and raises nothing, whatever
\* include_inputs is.
C6_AbsentGivesEmptyTriple ==
    (pc = "explain_workflow" /\ args.metadata = None)
        => /\ raised = NoException
           /\ Len(ret) = 3
           /\ \A i \in 1..3 : DOMAIN ret[i] = {}
           /\ printed = <<"Workflow not found.">>
           /\ opened = <<>>
           /\ requests = <<GetRequest("metadata", args.workflow_id)>>

C6_Witness ==
    /\ pc = "explain_workflow"
    /\ args.metadata = None
    /\ args.include_inputs
    /\ printed # <<>>

(***************************************************************************)
(* run, submission and restart                                             *)
(***************************************************************************)
IsPost(r) == r.method = "POST"

\* C8: when validation is requested and the validator returns errors, run
\* exits with code -1 and has issued no request; a submission POST is issued
\* only when validation was not requested or returned no error.
C8_ValidationFailureStopsBeforeNetwork ==
    pc = "call_run"
        => /\ (args.args.validate /\ args.env.validation # <<>>)
                 => /\ raised = SystemExit(-1)
                    /\ requests = <<>>
           /\ (\E i \in 1..Len(requests) : IsPost(requests[i]))
                 => (~args.args.validate \/ args.env.validation = <<>>)

C8_Witness ==
    /\ pc = "call_run"
    /\ args.args.validate
    /\ Len(args.env.validation) = 2
    /\ raised.exc = "SystemExit"

\* C9: the JSON-inputs part of every submission has a 'user' member equal to
\* the invoking OS user, for inputs read from a file and for inline text.
C9_SubmissionCarriesInvokingUser ==
    pc \in {"call_run", "restart_workflow"}
        => \A i \in 1..Len(requests) :
              IsPost(requests[i])
                  => LET inputs == json_loads(requests[i].files.workflowInputs.content)
                     IN  /\ "user" \in DOMAIN inputs
                         /\ inputs["user"] = args.env.user

LacksSubmission(metadata) ==
    \/ "submittedFiles" \notin DOMAIN metadata
    \/ "inputs" \notin DOMAIN metadata.submittedFiles
    \/ "workflow" \notin DOMAIN metadata.submittedFiles

\* C10: on a document without 'submittedFiles', or without its 'inputs' or
\* 'workflow' member, restart_workflow returns None, raises nothing and has
\* issued the metadata GET and nothing else.
C10_RestartUnavailable ==
    (pc = "restart_workflow" /\ args.env.metadata # None /\ LacksSubmission(args.env.metadata))
        => /\ raised = NoException
           /\ ret = None
           /\ requests = <<GetRequest("metadata", args.workflow_id)>>

C10_Witness ==
    /\ pc = "restart_workflow"
    /\ "submittedFiles" \in DOMAIN args.env.metadata
    /\ DOMAIN args.env.metadata.submittedFiles = {"inputs"}
    /\ ret = None
    /\ Len(requests) = 1

(***************************************************************************)
(* build_query_url, timestamps                                             *)
(***************************************************************************)
EncodedColon == <<"%", "3", "A">>
EncodedPlus == <<"%", "2", "B">>

TwoDigits(n) == <<Digit[(n \div 10) + 1], Digit[(n % 10) + 1]>>

\* YYYY-MM-DD: nothing in it needs percent-encoding.
EncodedDate(d) ==
    ZeroPad(Decimal(d.year), 4) \o <<"-">> \o TwoDigits(d.month) \o <<"-">> \o TwoDigits(d.day)

\* HH:MM:SS, the microseconds and the UTC offset when the timestamp has them,
\* with ':' and '+' percent-encoded.
EncodedTime(d) ==
    LET off == IF d.tz = <<>> THEN 0 ELSE d.tz[1]
        mag == IF off < 0 THEN 0 - off ELSE off
    IN  TwoDigits(d.hour) \o EncodedColon \o TwoDigits(d.minute) \o EncodedColon
        \o TwoDigits(d.second)
        \o (IF d.microsecond = 0 THEN <<>>
            ELSE <<".">> \o ZeroPad(Decimal(d.microsecond), 6))
        \o (IF d.tz = <<>> THEN <<>>
            ELSE (IF off < 0 THEN <<"-">> ELSE EncodedPlus)
                 \o TwoDigits(mag \div 60) \o EncodedColon \o TwoDigits(mag % 60))

\* The segment of one item of a mapping without lists.
Segment(item, sep) ==
    IF item[2].type = "datetime"
    THEN item[1] \o sep \o EncodedDate(item[2]) \o <<"T">> \o EncodedTime(item[2]) \o <<"Z">>
    ELSE item[1] \o sep \o str(item[2])

NoList(url_dict) ==
    \A i \in 1..Len(url_dict) : url_dict[i][2].type # "list"

HasTimestamp(url_dict) ==
    \E i \in 1..Len(url_dict) : url_dict[i][2].type = "datetime"

Count(s, c) == Cardinality({i \in 1..Len(s) : s[i] = c})

Contains(s, sub) ==
    \E i \in 1..(Len(s) - Len(sub) + 1) : SubSeq(s, i, i + Len(sub) - 1) = sub

\* C11: in a mapping without lists every timestamp yields the segment
\* key<sep><encoded date>T<encoded time>Z; when the timestamp is the only
\* parameter, what follows key<sep> has no raw space and no '%20', exactly one
\* 'T', and ends in 'Z'.
C11_TimestampSegment ==
    (pc = "build_query_url" /\ NoList(args.url_dict) /\ HasTimestamp(args.url_dict))
        => /\ ret = Trimmed(args.base_url)
                    \o JoinAmp([i \in 1..Len(args.url_dict) |->
                                   Segment(args.url_dict[i], args.sep)])
           /\ Len(args.url_dict) = 1
                 => LET lead == Len(Trimmed(args.base_url)) + Len(args.url_dict[1][1])
                                + Len(args.sep)
                        text == SubSeq(ret, lead + 1, Len(ret))
                    IN  /\ Count(text, " ") = 0
                        /\ ~Contains(text, <<"%", "2", "0">>)
                        /\ Count(text, "T") = 1
                        /\ text[Len(text)] = "Z"
                        /\ text[11] = "T"

C11_Witness ==
    /\ pc = "build_query_url"
    /\ Len(args.url_dict) = 1
    /\ args.url_dict[1][2] = DateTime(2017, 12, 31, 23, 59, 58, 1200, <<>>)
    /\ args.sep = <<"=">>
    /\ Contains(ret, <<"3", "1", "T", "2", "3", "%", "3", "A", "5", "9">>)
    /\ ret[Len(ret)] = "Z"

====
